---- MODULE Spec2Model ----
(***************************************************************************)
(* Model of the assetsrates service: the in-process channel registry       *)
(* (assetsrates/pubsub.py), the per-connection websocket session           *)
(* (assetsrates/websockets.py) and the rates crawler                       *)
(* (assetsrates/ratescrawler.py, storage.save_points).                     *)
(*                                                                         *)
(* The specifications share the registry:                                  *)
(*   PubSubSpec  - the registry driven directly through its API            *)
(*                 (Subscription.__init__/__enter__/__exit__/get, publish) *)
(*   Spec        - websocket sessions with their forwarding tasks, on top  *)
(*                 of the same registry, with a publisher                  *)
(*   SendSpec    - Spec with every send split at its suspension point      *)
(*   ParseSpec   - parse_raw applied to bounded payloads                   *)
(*   CrawlSpec   - the crawler task, the store's history table and a       *)
(*                 subscriber of the registry                              *)
(***************************************************************************)
EXTENDS Integers, Sequences, FiniteSets, TLC

\* ------------------------------------------------------------------ bounds

\* asyncio.Queue(maxsize=100) of pubsub.py:27, scaled down so that a full
\* queue is reached within MaxPublish publishes.
QueueMaxSize == 2
\* number of publish calls in one behaviour
MaxPublish == 3
\* number of Subscription objects (and, in Spec, of forwarding tasks)
NumSubs == 2
\* number of inbound frames one session reads
MaxMsgs == 2
\* number of ticks the crawler starts
MaxTicks == 3
\* contexts of SubscriptionManager.subscribe, and upstream notifications
NumCtx == 3
MaxNotes == 2
\* the clock runs from 0 to MaxTime, in steps of 1/ClockRes second
MaxTime == 5
ClockRes == 2
\* number of records in the "Rates" list of a payload given to parse_raw
MaxRates == 2

\* channel names are asset symbols (tests/test_assetsrates.py:92-98)
Names == {"EURUSD", "USDJPY"}
SubIds == 1..NumSubs
NoChan == "-"

\* websocket connections; the session properties are per connection, and
\* every connection runs the same ws_handler over the shared registry
Sessions == {"s1"}
NoTask == 0
NoSession == "-"

VARIABLES
    CHANNELS,      \* pubsub._CHANNELS: name -> _Channel._subscribers
    subChan,       \* Subscription._channel (by name), NoChan before __init__
    subState,      \* "none" | "init" | "entered" | "exited"
    queue,         \* Subscription._queue
    npub,          \* number of publish calls so far
    published,     \* history: points passed to publish(), per channel
    offered,       \* history: points published to a subscription's channel
                   \*          while it was in the subscriber set
    received,      \* history: points returned by Subscription.get
    sinceFirst,    \* history: entered before the first publish, never exited
    wasFull        \* history: the queue has been at capacity

psvars == <<CHANNELS, subChan, subState, queue, npub, published, offered,
            received, sinceFirst, wasFull>>

VARIABLES
    hpc,            \* ws_handler: "recv" | "cancelling" | "closing" | "done" | "failed"
    subscribe_task, \* ws_handler's subscribe_task, NoTask for None
    hexc,           \* the exception ws_handler raised, "none" if none
    nrecv,          \* number of frames the session has read
    hmsg,           \* ws_handler's msg.get("assetId") while it awaits _cancel_task
    lastInvalid,    \* history: the latest frame read was not a well-formed request
    lastAssets,     \* history: the latest frame read was an assets request and
                    \*   its store query returned ("ok") or raised ("error"),
                    \*   "no" for any other frame
    out,            \* frames written to the websocket, in order
    tstate,         \* subscribe_handler task: "none" | "created" | "lookup" |
                    \*   "history" | "sent" | "forwarding" | "done" | "failed" |
                    \*   "cancelled"
    towner,         \* the session whose ws_handler created the task
    treq,           \* msg.get("assetId") of the request the task serves
    tcancel,        \* Task.cancel() was called and not yet delivered
    texc            \* the exception the task ended with, "none" if none

svars == <<hpc, subscribe_task, hexc, nrecv, hmsg, lastInvalid, lastAssets, out,
           tstate, towner, treq, tcancel, texc>>

VARIABLES
    cpc,          \* crawl(): "start" | "fetch" | "assets" | "insert" | "notify" |
                  \*          "sleep" | "finished" (the await it is suspended at);
                  \*          "parse" | "parsed" | "parse_error" in ParseSpec
    now,          \* time.time(), in clock steps
    cts,          \* crawl's ts
    cwake,        \* the time asyncio.sleep(sleep_time) returns
    nticks,       \* number of ticks started
    craw,         \* crawl's raw_data
    cassets,      \* crawl's assets
    cpoints,      \* crawl's points
    ck,           \* save_points: index of the point being saved
    stored,       \* the rows of history_points, in insertion order
    ccancel,      \* app cleanup has called cancel() on the crawler task
    cresult,      \* outcome of `await app["ratescrawler_task"]`: "pending" |
                  \*   "returned" | "raised"
    clogged,      \* number of log.exception calls of the per-tick handlers
    tickErr,      \* history: the step of the current tick that raised,
                  \*   "none" | "fetch" | "parse" | "store"
    tickBase,     \* history: <<Len(stored), npub>> when the tick started, and
                  \*   the start time of the tick before it
    cancelledAt   \* history: the await at which CancelledError was raised

cvars == <<cpc, now, cts, cwake, nticks, craw, cassets, cpoints, ck, stored,
           ccancel, cresult, clogged, tickErr, tickBase, cancelledAt>>

VARIABLES
    _channels,    \* SubscriptionManager._channels
    _connection,  \* SubscriptionManager._connection, NoConn for None
    held,         \* the connections the manager's contexts hold from the pool
    listeners,    \* the registered callbacks <<connection, channel, context>>
    mpc,          \* per context: "idle" | "acquire" | "add" | "active" |
                  \*   "remove" | "release" | "done" | "raised"
    mchan,        \* per context: subscribe's channel
    new_channel,  \* per context: subscribe's new_channel
    reset_conn,   \* per context: _acquire's reset_conn
    conn,         \* per context: subscribe's conn
    mexc,         \* per context: the exception on its way out of the context
    movl,         \* history, per context: the first subscribe of the same
                  \*   channel that was suspended when the context was entered
    mnotes,       \* number of upstream notifications
    mcalls,       \* history: callbacks called for the last notification
    mlast         \* history: channel of the last notification

mvars == <<_channels, _connection, held, listeners, mpc, mchan, new_channel,
           reset_conn, conn, mexc, movl, mnotes, mcalls, mlast>>

vars == <<psvars, svars, cvars, mvars>>

\* ---------------------------------------------------------------- helpers

Range(f) == {f[i] : i \in DOMAIN f}

Last(q) == q[Len(q)]

Point(c, n) == [chan |-> c, id |-> n]

\* _Channel._subscribers of a name, {} when the name has no record
Subscribers(chs, name) == IF name \in DOMAIN chs THEN chs[name] ELSE {}

\* ------------------------------------------------------------ pubsub.py

\* _get_channel: creates the record on first use, never removes it
get_channel(chs, name) ==
    IF name \in DOMAIN chs THEN chs ELSE chs @@ (name :> {})

\* _Channel.subscribe
channel_subscribe(chs, name, s) == [chs EXCEPT ![name] = @ \cup {s}]

\* _Channel.unsubscribe: set.remove, the record itself stays in _CHANNELS
channel_unsubscribe(chs, name, s) == [chs EXCEPT ![name] = @ \ {s}]

put_dropping_oldest(q, msg) ==
    IF Len(q) < QueueMaxSize THEN Append(q, msg) ELSE Append(Tail(q), msg)

put_twice(q, msg) ==
    IF Len(q) + 1 < QueueMaxSize THEN Append(Append(q, msg), msg)
    ELSE IF Len(q) < QueueMaxSize THEN Append(q, msg) ELSE q

\* Subscription.put: put_nowait unless the queue is full
put(q, msg) == IF Len(q) < QueueMaxSize THEN Append(q, msg) ELSE q

deliver_when_empty(qs, subs, msg) ==
    [s \in SubIds |-> IF s \in subs /\ qs[s] = <<>> THEN put(qs[s], msg) ELSE qs[s]]

deliver_to_first(qs, subs, msg) ==
    [s \in SubIds |->
        IF s \in subs /\ \A r \in subs : s <= r THEN put(qs[s], msg) ELSE qs[s]]

\* _Channel.publish: put to every subscriber of the channel
channel_publish(qs, subs, msg) ==
    [s \in SubIds |-> IF s \in subs THEN put(qs[s], msg) ELSE qs[s]]

\* ------------------------------------------------- registry API actions

\* Subscription.__init__(channel); objects are numbered in creation order
SubInit(s, c) ==
    /\ subState[s] = "none"
    /\ \A r \in SubIds : r < s => subState[r] # "none"
    /\ subState' = [subState EXCEPT ![s] = "init"]
    /\ subChan' = [subChan EXCEPT ![s] = c]
    /\ CHANNELS' = get_channel(CHANNELS, c)
    /\ UNCHANGED <<queue, npub, published, offered, received, sinceFirst, wasFull>>

\* Subscription.__enter__ (each object is used by one with-block)
SubEnter(s) ==
    /\ subState[s] = "init"
    /\ subState' = [subState EXCEPT ![s] = "entered"]
    /\ CHANNELS' = channel_subscribe(CHANNELS, subChan[s], s)
    /\ sinceFirst' = [sinceFirst EXCEPT ![s] =
                        subState[s] = "init" /\ published[subChan[s]] = <<>>]
    /\ UNCHANGED <<subChan, queue, npub, published, offered, received, wasFull>>

\* Subscription.__exit__ (the context manager protocol pairs it with __enter__)
SubExit(s) ==
    /\ subState[s] = "entered"
    /\ subState' = [subState EXCEPT ![s] = "exited"]
    /\ CHANNELS' = channel_unsubscribe(CHANNELS, subChan[s], s)
    /\ sinceFirst' = [sinceFirst EXCEPT ![s] = FALSE]
    /\ UNCHANGED <<subChan, queue, npub, published, offered, received, wasFull>>

\* Subscription.get returning (it stays suspended while the queue is empty)
SubGet(s) ==
    /\ subState[s] # "none"
    /\ queue[s] # <<>>
    /\ received' = [received EXCEPT ![s] = Append(@, Head(queue[s]))]
    /\ queue' = [queue EXCEPT ![s] = Tail(@)]
    /\ UNCHANGED <<CHANNELS, subChan, subState, npub, published, offered,
                   sinceFirst, wasFull>>

\* publish(channel, msg): _get_channel(channel).publish(msg)
PublishPoint(c, msg) ==
    /\ LET chs == get_channel(CHANNELS, c)
           subs == chs[c]
           qs == channel_publish(queue, subs, msg)
       IN /\ CHANNELS' = chs
          /\ queue' = qs
          /\ npub' = npub + 1
          /\ published' = [published EXCEPT ![c] = Append(@, msg)]
          /\ offered' = [s \in SubIds |->
                           IF s \in subs THEN Append(offered[s], msg) ELSE offered[s]]
          /\ wasFull' = [s \in SubIds |-> wasFull[s] \/ Len(qs[s]) >= QueueMaxSize]
    /\ UNCHANGED <<subChan, subState, received, sinceFirst>>

\* a publisher: the n-th point of channel c is published
Publish(c) ==
    /\ npub < MaxPublish
    /\ PublishPoint(c, Point(c, Len(published[c]) + 1))

\* ---------------------------------------------------------- websockets.py

\* the assets table as the tests seed it (id, symbol), in store order
Assets == << [id |-> 1, symbol |-> "EURUSD"], [id |-> 2, symbol |-> "USDJPY"] >>

NoAsset == [id |-> 0, symbol |-> NoChan]

\* storage.get_asset_by_id
get_asset_by_id(id) ==
    IF \E i \in DOMAIN Assets : Assets[i].id = id
    THEN Assets[CHOOSE i \in DOMAIN Assets : Assets[i].id = id]
    ELSE NoAsset

\* msg.get("assetId"): an int, a value of another type, or absent
IntId(n) == [t |-> "int", v |-> n]
StrId == [t |-> "str", v |-> 0]
NoId == [t |-> "none", v |-> 0]

\* an inbound frame: whether it decodes as JSON text, whether the decoded
\* value is a dict, its "action", whether its "message" is a dict, and
\* message.get("assetId")
Raw(dec, isDict, action, msgIsDict, assetId) ==
    [decodes |-> dec, isDict |-> isDict, action |-> action,
     msgIsDict |-> msgIsDict, assetId |-> assetId]

RawMessages ==
    { Raw(FALSE, FALSE, "-", FALSE, NoId),
      Raw(TRUE, FALSE, "-", FALSE, NoId),
      Raw(TRUE, TRUE, "bogus", TRUE, IntId(1)),
      Raw(TRUE, TRUE, "assets", FALSE, NoId),
      Raw(TRUE, TRUE, "subscribe", FALSE, NoId),
      Raw(TRUE, TRUE, "assets", TRUE, NoId),
      Raw(TRUE, TRUE, "subscribe", TRUE, IntId(1)),
      Raw(TRUE, TRUE, "subscribe", TRUE, IntId(2)),
      Raw(TRUE, TRUE, "subscribe", TRUE, IntId(3)),
      Raw(TRUE, TRUE, "subscribe", TRUE, StrId),
      Raw(TRUE, TRUE, "subscribe", TRUE, NoId) }

\* a frame that is not a decodable object, names no known action, or whose
\* "message" is not an object
Malformed(raw) ==
    \/ ~raw.decodes \/ ~raw.isDict
    \/ raw.action \notin {"assets", "subscribe"}
    \/ ~raw.msgIsDict

ACTION_ASSETS == "assets"
ACTION_SUBSCRIBE == "subscribe"

validate_without_message_check(raw) ==
    raw.isDict /\ raw.action \in {ACTION_SUBSCRIBE, ACTION_ASSETS}

\* validate_raw_message: TRUE when it returns, FALSE when it raises ValueError
validate_raw_message(raw) ==
    IF ~raw.isDict THEN FALSE
    ELSE IF raw.action \notin {ACTION_SUBSCRIBE, ACTION_ASSETS} THEN FALSE
    ELSE IF ~raw.msgIsDict THEN FALSE
    ELSE TRUE

\* aiter_ws_messages: a frame is yielded unless receive_json or
\* validate_raw_message raised TypeError / ValueError
Yielded(raw) == raw.decodes /\ validate_raw_message(raw)

\* storage.get_available_assets: the rows of the assets table, in store order
get_available_assets == Assets

\* storage.get_asset_history: the points stored for the asset (every point
\* of a behaviour is younger than HISTORY_RANGE)
get_asset_history(asset) == published[asset.symbol]

\* outbound frames; `items` is the list a frame carries (message.assets,
\* message.points), `sub` the task that wrote it
Msg(action, asset, sub, point) ==
    [action |-> action, asset |-> asset, sub |-> sub, point |-> point,
     items |-> <<>>]

serialize_asset(asset) == [id |-> asset.id, name |-> asset.symbol]
serialize_point(point) == [id |-> point.id, name |-> point.chan]

build_assets_message_reversed(assets) ==
    [Msg("assets", NoChan, NoTask, 0) EXCEPT
        !.items = [i \in DOMAIN assets |->
                      serialize_asset(assets[Len(assets) + 1 - i])]]

build_assets_message(assets) ==
    [Msg("assets", NoChan, NoTask, 0) EXCEPT
        !.items = [i \in DOMAIN assets |-> serialize_asset(assets[i])]]
build_asset_history_message(asset, points, t) ==
    [Msg("asset_history", asset.symbol, t, 0) EXCEPT
        !.items = [i \in DOMAIN points |-> serialize_point(points[i])]]
build_point_message(point, t) == Msg("point", point.chan, t, point.id)

Finished == {"done", "failed", "cancelled"}
Live == {"created", "lookup", "history", "sent", "forwarding"}

\* tasks are numbered in creation order
FreeTask == CHOOSE t \in SubIds :
                tstate[t] = "none" /\ \A r \in SubIds : r < t => tstate[r] # "none"
HasFreeTask == \E t \in SubIds : tstate[t] = "none"

\* asyncio.create_task(subscribe_handler(ws, msg)); subscribe_task = <it>
CreateTask(x, req) ==
    /\ subscribe_task' = [subscribe_task EXCEPT ![x] = FreeTask]
    /\ tstate' = [tstate EXCEPT ![FreeTask] = "created"]
    /\ towner' = [towner EXCEPT ![FreeTask] = x]
    /\ treq' = [treq EXCEPT ![FreeTask] = req]
    /\ hpc' = [hpc EXCEPT ![x] = "recv"]
    /\ hmsg' = [hmsg EXCEPT ![x] = NoId]
    /\ UNCHANGED <<hexc, tcancel, out>>

Finally_without_cancel(x, exc) ==
    /\ hpc' = [hpc EXCEPT ![x] = IF exc = "none" THEN "done" ELSE "failed"]
    /\ hexc' = [hexc EXCEPT ![x] = exc]
    /\ UNCHANGED <<tcancel, subscribe_task, tstate, towner, treq, out, hmsg>>

\* the finally block of ws_handler, entered with the exception that ended
\* the loop ("none" when the loop ended because the websocket closed).
\* _cancel_task on a task that has finished returns or re-raises the task's
\* exception at once; on a live task it requests the cancellation and waits.
Finally(x, exc) ==
    LET t == subscribe_task[x] IN
    /\ IF t = NoTask
       THEN /\ hpc' = [hpc EXCEPT ![x] = IF exc = "none" THEN "done" ELSE "failed"]
            /\ hexc' = [hexc EXCEPT ![x] = exc]
            /\ UNCHANGED tcancel
       ELSE IF tstate[t] \in Finished
       THEN LET e == IF tstate[t] = "failed" THEN texc[t] ELSE exc
            IN /\ hpc' = [hpc EXCEPT ![x] = IF e = "none" THEN "done" ELSE "failed"]
               /\ hexc' = [hexc EXCEPT ![x] = e]
               /\ UNCHANGED tcancel
       ELSE /\ tcancel' = [tcancel EXCEPT ![t] = TRUE]
            /\ hpc' = [hpc EXCEPT ![x] = "closing"]
            /\ hexc' = [hexc EXCEPT ![x] = exc]
    /\ UNCHANGED <<subscribe_task, tstate, towner, treq, out, hmsg>>

HandleSubscribe_without_cancel(x, req) == CreateTask(x, req)

\* the ACTION_SUBSCRIBE branch of ws_handler
HandleSubscribe(x, req) ==
    LET t == subscribe_task[x] IN
    IF t = NoTask THEN CreateTask(x, req)
    ELSE IF tstate[t] = "failed" THEN Finally(x, texc[t])
    ELSE IF tstate[t] \in Finished THEN CreateTask(x, req)
    ELSE /\ tcancel' = [tcancel EXCEPT ![t] = TRUE]
         /\ hpc' = [hpc EXCEPT ![x] = "cancelling"]
         /\ hmsg' = [hmsg EXCEPT ![x] = req]
         /\ UNCHANGED <<hexc, subscribe_task, tstate, towner, treq, out>>

\* the ACTION_ASSETS branch: assets_handler, whose store query may raise
HandleAssets(x, ok) ==
    IF ok
    THEN /\ out' = [out EXCEPT ![x] =
                       Append(@, build_assets_message(get_available_assets))]
         /\ UNCHANGED <<hpc, hexc, tcancel, subscribe_task, tstate, towner, treq, hmsg>>
    ELSE Finally(x, "StoreError")

\* one iteration of the receive loop of ws_handler over aiter_ws_messages
Receive(x, raw) ==
    /\ hpc[x] = "recv"
    /\ nrecv[x] < MaxMsgs
    /\ nrecv' = [nrecv EXCEPT ![x] = @ + 1]
    /\ lastInvalid' = [lastInvalid EXCEPT ![x] = Malformed(raw)]
    /\ IF ~Yielded(raw)
       THEN /\ UNCHANGED <<hpc, hexc, tcancel, subscribe_task, tstate, towner, treq,
                           out, hmsg>>
            /\ lastAssets' = [lastAssets EXCEPT ![x] = "no"]
       ELSE IF raw.action = ACTION_ASSETS
       THEN \E ok \in BOOLEAN :
               /\ HandleAssets(x, ok)
               /\ lastAssets' = [lastAssets EXCEPT ![x] = IF ok THEN "ok" ELSE "error"]
       ELSE /\ HasFreeTask
            /\ HandleSubscribe(x, raw.assetId)
            /\ lastAssets' = [lastAssets EXCEPT ![x] = "no"]
    /\ UNCHANGED <<psvars, texc>>

\* the websocket closes: aiter_ws_messages ends, ws_handler runs finally
Close(x) ==
    /\ hpc[x] = "recv"
    /\ Finally(x, "none")
    /\ UNCHANGED <<psvars, texc, nrecv, lastInvalid, lastAssets>>

\* ws_handler resumes from `await task` in _cancel_task
CancelReturns(x) ==
    /\ hpc[x] \in {"cancelling", "closing"}
    /\ tstate[subscribe_task[x]] \in Finished
    /\ IF hpc[x] = "cancelling"
       THEN HasFreeTask /\ CreateTask(x, hmsg[x])
       ELSE /\ hpc' = [hpc EXCEPT ![x] = IF hexc[x] = "none" THEN "done" ELSE "failed"]
            /\ UNCHANGED <<hexc, tcancel, subscribe_task, tstate, towner, treq, out, hmsg>>
    /\ UNCHANGED <<psvars, texc, nrecv, lastInvalid, lastAssets>>

\* --------------------------------------- subscribe_handler (one task)

\* the task's first step: msg.get("assetId"); a value that is not an int
\* leaves `asset` unbound and the `asset is None` test raises
TaskStart(t) ==
    /\ tstate[t] = "created" /\ ~tcancel[t]
    /\ IF treq[t].t = "int"
       THEN /\ tstate' = [tstate EXCEPT ![t] = "lookup"]
            /\ UNCHANGED texc
       ELSE /\ tstate' = [tstate EXCEPT ![t] = "failed"]
            /\ texc' = [texc EXCEPT ![t] = "UnboundLocalError"]
    /\ UNCHANGED <<psvars, hpc, subscribe_task, hexc, nrecv, hmsg, lastInvalid, lastAssets, out,
                   towner, treq, tcancel>>

\* get_asset_by_id returns (or raises): an unknown id ends the task
TaskLookup(t, ok) ==
    /\ tstate[t] = "lookup" /\ ~tcancel[t]
    /\ IF ~ok
       THEN /\ tstate' = [tstate EXCEPT ![t] = "failed"]
            /\ texc' = [texc EXCEPT ![t] = "StoreError"]
       ELSE /\ tstate' = [tstate EXCEPT ![t] =
                            IF get_asset_by_id(treq[t].v) = NoAsset
                            THEN "done" ELSE "history"]
            /\ UNCHANGED texc
    /\ UNCHANGED <<psvars, hpc, subscribe_task, hexc, nrecv, hmsg, lastInvalid, lastAssets, out,
                   towner, treq, tcancel>>

TaskHistory_without_reply(t, ok) ==
    /\ tstate[t] = "history" /\ ~tcancel[t]
    /\ tstate' = [tstate EXCEPT ![t] = "sent"]
    /\ UNCHANGED <<psvars, hpc, subscribe_task, hexc, nrecv, hmsg, lastInvalid, lastAssets, out,
                   towner, treq, tcancel, texc>>

\* get_asset_history returns (or raises); the asset_history frame is written
TaskHistory(t, ok) ==
    /\ tstate[t] = "history" /\ ~tcancel[t]
    /\ IF ~ok
       THEN /\ tstate' = [tstate EXCEPT ![t] = "failed"]
            /\ texc' = [texc EXCEPT ![t] = "StoreError"]
            /\ UNCHANGED out
       ELSE /\ tstate' = [tstate EXCEPT ![t] = "sent"]
            /\ out' = [out EXCEPT ![towner[t]] =
                         Append(@, build_asset_history_message(
                                       get_asset_by_id(treq[t].v),
                                       get_asset_history(get_asset_by_id(treq[t].v)),
                                       t))]
            /\ UNCHANGED texc
    /\ UNCHANGED <<psvars, hpc, subscribe_task, hexc, nrecv, hmsg, lastInvalid, lastAssets,
                   towner, treq, tcancel>>

\* send_ws_message returned: the task enters channels.subscribe(asset.symbol)
\* (Subscription.__init__ and __enter__) and waits in sub.get()
TaskSubscribe(t) ==
    /\ tstate[t] = "sent" /\ ~tcancel[t]
    /\ tstate' = [tstate EXCEPT ![t] = "forwarding"]
    /\ LET c == get_asset_by_id(treq[t].v).symbol
       IN /\ subChan' = [subChan EXCEPT ![t] = c]
          /\ subState' = [subState EXCEPT ![t] = "entered"]
          /\ CHANNELS' = channel_subscribe(get_channel(CHANNELS, c), c, t)
          /\ sinceFirst' = [sinceFirst EXCEPT ![t] = published[c] = <<>>]
    /\ UNCHANGED <<queue, npub, published, offered, received, wasFull>>
    /\ UNCHANGED <<hpc, subscribe_task, hexc, nrecv, hmsg, lastInvalid, lastAssets, out,
                   towner, treq, tcancel, texc>>

TaskForward_ignoring_cancel(t) ==
    /\ tstate[t] = "forwarding"
    /\ queue[t] # <<>>
    /\ received' = [received EXCEPT ![t] = Append(@, Head(queue[t]))]
    /\ queue' = [queue EXCEPT ![t] = Tail(@)]
    /\ out' = [out EXCEPT ![towner[t]] =
                 Append(@, build_point_message(Head(queue[t]), t))]
    /\ UNCHANGED <<CHANNELS, subChan, subState, npub, published, offered,
                   sinceFirst, wasFull>>
    /\ UNCHANGED <<hpc, subscribe_task, hexc, nrecv, hmsg, lastInvalid, lastAssets,
                   tstate, towner, treq, tcancel, texc>>

\* sub.get() returns a point and the task writes its point frame
TaskForward(t) ==
    /\ tstate[t] = "forwarding" /\ ~tcancel[t]
    /\ queue[t] # <<>>
    /\ received' = [received EXCEPT ![t] = Append(@, Head(queue[t]))]
    /\ queue' = [queue EXCEPT ![t] = Tail(@)]
    /\ out' = [out EXCEPT ![towner[t]] =
                 Append(@, build_point_message(Head(queue[t]), t))]
    /\ UNCHANGED <<CHANNELS, subChan, subState, npub, published, offered,
                   sinceFirst, wasFull>>
    /\ UNCHANGED <<hpc, subscribe_task, hexc, nrecv, hmsg, lastInvalid, lastAssets,
                   tstate, towner, treq, tcancel, texc>>

\* the requested cancellation reaches the task at its await: CancelledError
\* unwinds subscribe_handler, leaving the subscription's with-block
TaskCancelled(t) ==
    /\ tcancel[t] /\ tstate[t] \in Live
    /\ tstate' = [tstate EXCEPT ![t] = "cancelled"]
    /\ tcancel' = [tcancel EXCEPT ![t] = FALSE]
    /\ IF tstate[t] = "forwarding"
       THEN /\ subState' = [subState EXCEPT ![t] = "exited"]
            /\ CHANNELS' = channel_unsubscribe(CHANNELS, subChan[t], t)
            /\ sinceFirst' = [sinceFirst EXCEPT ![t] = FALSE]
       ELSE UNCHANGED <<subState, CHANNELS, sinceFirst>>
    /\ UNCHANGED <<subChan, queue, npub, published, offered, received, wasFull>>
    /\ UNCHANGED <<hpc, subscribe_task, hexc, nrecv, hmsg, lastInvalid, lastAssets, out,
                   towner, treq, texc>>

\* -------------------------------------------------------- ratescrawler.py

REQUEST_PERIOD == 1

\* a numeric field of a rate record that is absent (or null)
Missing == -1

\* a record of the "Rates" list; prices are in hundredths
Rate(symbol, bid, ask) == [symbol |-> symbol, bid |-> bid, ask |-> ask]

\* the records of the bounded payloads: a known symbol, an unknown one or
\* none at all; bid and ask present, zero or missing
RateRecords ==
    {Rate(s, b, a) : s \in Names \cup {"XAUUSD", NoChan},
                     b \in {Missing, 20}, a \in {Missing, 0, 40}}

\* a response body: whether it decodes to the expected JSON object once the
\* wrapper is stripped, whether it came wrapped in null( ... ); and its
\* "Rates" list
Payload(decodes, wrapped, rates) ==
    [decodes |-> decodes, wrapped |-> wrapped, rates |-> rates]

NoPayload == Payload(FALSE, FALSE, <<>>)

Payloads ==
    {NoPayload} \cup
    {Payload(TRUE, w, rs) :
        w \in BOOLEAN, rs \in UNION {[1..n -> RateRecords] : n \in 0..MaxRates}}

\* the asset lists parse_raw is applied to
AssetLists == {Assets, <<Assets[2], Assets[1]>>, <<Assets[1]>>, <<>>}

HistoryPoint(asset, timestamp, value) ==
    [asset |-> asset, timestamp |-> timestamp, value |-> value]

\* symbol_to_asset = {i.symbol: i for i in assets}
symbol_in_assets(assets, symbol) ==
    \E i \in DOMAIN assets : assets[i].symbol = symbol
symbol_to_asset(assets, symbol) ==
    LET idx == {i \in DOMAIN assets : assets[i].symbol = symbol}
    IN assets[CHOOSE i \in idx : \A j \in idx : j <= i]

\* Decimal(str(rate.get(key) or 0.0))
to_decimal(x) == IF x = Missing THEN 0 ELSE x

RECURSIVE parse_rates_skipping_missing(_, _, _)
parse_rates_skipping_missing(rates, ts, assets) ==
    IF rates = <<>> THEN <<>>
    ELSE LET rate == Head(rates)
             rest == parse_rates_skipping_missing(Tail(rates), ts, assets)
         IN IF /\ symbol_in_assets(assets, rate.symbol)
               /\ rate.bid # Missing /\ rate.ask # Missing
            THEN <<HistoryPoint(symbol_to_asset(assets, rate.symbol), ts,
                                (rate.bid + rate.ask) \div 2)>> \o rest
            ELSE rest

\* the loop of parse_raw over the records of "Rates"
RECURSIVE parse_rates(_, _, _)
parse_rates(rates, ts, assets) ==
    IF rates = <<>> THEN <<>>
    ELSE LET rate == Head(rates)
             rest == parse_rates(Tail(rates), ts, assets)
         IN IF symbol_in_assets(assets, rate.symbol)
            THEN <<HistoryPoint(symbol_to_asset(assets, rate.symbol), ts,
                                (to_decimal(rate.bid) + to_decimal(rate.ask)) \div 2)>>
                 \o rest
            ELSE rest

\* parse_raw: the points, or err when json.loads (or the access to the
\* decoded value) raises
parse_raw(raw, ts, assets) ==
    IF ~raw.decodes
    THEN [err |-> TRUE, points |-> <<>>]
    ELSE [err |-> FALSE, points |-> parse_rates(raw.rates, ts, assets)]

\* int(ts)
IntTs(t) == t \div ClockRes

\* storage._dump_history_point / _load_history_point: the notification
\* payload and the point rebuilt from it
dump_history_point(point) ==
    <<point.asset.id, point.asset.symbol, point.timestamp, point.value>>
load_history_point(payload) ==
    HistoryPoint([id |-> payload[1], symbol |-> payload[2]], payload[3], payload[4])

\* the bodies the rates source answers with
CrawlPayloads ==
    { NoPayload,
      Payload(TRUE, TRUE, <<Rate("EURUSD", 20, 40)>>),
      Payload(TRUE, FALSE, <<Rate("XAUUSD", 20, 40), Rate("USDJPY", Missing, 40),
                             Rate("EURUSD", 20, 40)>>) }

\* the subscriptions of the registry that take part in CrawlSpec
CrawlSubs == {1}

EndTick_full_period ==
    /\ cpc' = "sleep"
    /\ cwake' = now + REQUEST_PERIOD * ClockRes

\* sleep_time = ts - time.time() + REQUEST_PERIOD; await asyncio.sleep(...)
\* (a delay that is not positive returns at once)
EndTick ==
    /\ cpc' = "sleep"
    /\ cwake' = IF cts + REQUEST_PERIOD * ClockRes > now
                THEN cts + REQUEST_PERIOD * ClockRes ELSE now

\* log.exception of `except ClientError` / `except Exception`, then the sleep
LogError(step) ==
    /\ clogged' = clogged + 1
    /\ tickErr' = step
    /\ EndTick

\* ts = time.time(); await _make_request(...)
BeginTick ==
    /\ nticks < MaxTicks
    /\ nticks' = nticks + 1
    /\ cts' = now
    /\ cpc' = "fetch"
    /\ tickErr' = "none"
    /\ tickBase' = <<Len(stored), npub, cts>>
    /\ UNCHANGED <<now, cwake, craw, cassets, cpoints, ck, stored, ccancel,
                   cresult, clogged, cancelledAt>>

\* the crawler task runs its first step
CrawlStart ==
    /\ cpc = "start"
    /\ BeginTick
    /\ UNCHANGED <<psvars, svars>>

\* asyncio.sleep returns: the next iteration of `while True`
CrawlWake ==
    /\ cpc = "sleep" /\ ~ccancel
    /\ now >= cwake
    /\ BeginTick
    /\ UNCHANGED <<psvars, svars>>

CrawlFetched_without_handler(outcome, raw) ==
    /\ cpc = "fetch" /\ ~ccancel
    /\ IF outcome = "ok"
       THEN /\ craw' = raw
            /\ cpc' = "assets"
            /\ UNCHANGED <<cwake, clogged, tickErr, cresult>>
       ELSE /\ cpc' = "finished"
            /\ cresult' = "raised"
            /\ UNCHANGED <<craw, cwake, clogged, tickErr>>
    /\ UNCHANGED <<now, cts, nticks, cassets, cpoints, ck, stored, ccancel,
                   tickBase, cancelledAt>>
    /\ UNCHANGED <<psvars, svars>>

\* _make_request returns the body, or raises ClientError (connection error,
\* raise_for_status) or another exception (timeout)
CrawlFetched(outcome, raw) ==
    /\ cpc = "fetch" /\ ~ccancel
    /\ IF outcome = "ok"
       THEN /\ craw' = raw
            /\ cpc' = "assets"
            /\ UNCHANGED <<cwake, clogged, tickErr, cresult>>
       ELSE /\ LogError("fetch")
            /\ UNCHANGED <<craw, cresult>>
    /\ UNCHANGED <<now, cts, nticks, cassets, cpoints, ck, stored, ccancel,
                   tickBase, cancelledAt>>
    /\ UNCHANGED <<psvars, svars>>

\* get_available_assets returns (or raises); parse_raw; save_points is
\* entered when there are points
CrawlAssets(ok) ==
    /\ cpc = "assets" /\ ~ccancel
    /\ IF ~ok
       THEN /\ LogError("store")
            /\ UNCHANGED <<cassets, cpoints, ck>>
       ELSE LET parsed == parse_raw(craw, IntTs(cts), get_available_assets)
            IN /\ cassets' = get_available_assets
               /\ cpoints' = parsed.points
               /\ IF parsed.err
                  THEN LogError("parse") /\ UNCHANGED ck
                  ELSE IF parsed.points = <<>>
                  THEN EndTick /\ UNCHANGED <<ck, clogged, tickErr>>
                  ELSE /\ cpc' = "insert"
                       /\ ck' = 1
                       /\ UNCHANGED <<cwake, clogged, tickErr>>
    /\ UNCHANGED <<now, cts, nticks, craw, stored, ccancel, cresult, tickBase,
                   cancelledAt>>
    /\ UNCHANGED <<psvars, svars>>

\* save_points: the INSERT of the point returns (or raises)
CrawlInsert(ok) ==
    /\ cpc = "insert" /\ ~ccancel
    /\ IF ok
       THEN /\ stored' = Append(stored, cpoints[ck])
            /\ cpc' = "notify"
            /\ UNCHANGED <<cwake, clogged, tickErr>>
       ELSE /\ LogError("store")
            /\ UNCHANGED stored
    /\ UNCHANGED <<now, cts, nticks, craw, cassets, cpoints, ck, ccancel, cresult,
                   tickBase, cancelledAt>>
    /\ UNCHANGED <<psvars, svars>>

\* pg_notify(symbol, payload): the listener's callback publishes the point
\* rebuilt from the payload on the channel of that name
Notify(point) ==
    PublishPoint(point.asset.symbol,
                 load_history_point(dump_history_point(point)))

\* save_points: the pg_notify of the point returns (or raises); the next
\* point, or the end of save_points and the sleep
CrawlNotify(ok) ==
    /\ cpc = "notify" /\ ~ccancel
    /\ IF ok
       THEN /\ Notify(cpoints[ck])
            /\ IF ck = Len(cpoints)
               THEN EndTick /\ UNCHANGED ck
               ELSE /\ cpc' = "insert"
                    /\ ck' = ck + 1
                    /\ UNCHANGED cwake
            /\ UNCHANGED <<clogged, tickErr>>
       ELSE /\ LogError("store")
            /\ UNCHANGED <<psvars, ck>>
    /\ UNCHANGED <<now, cts, nticks, craw, cassets, cpoints, stored, ccancel,
                   cresult, tickBase, cancelledAt>>
    /\ UNCHANGED svars

\* app cleanup: app["ratescrawler_task"].cancel(), then `await` of the task
CrawlCancel ==
    /\ ~ccancel
    /\ cpc \notin {"start", "finished"}
    /\ ccancel' = TRUE
    /\ UNCHANGED <<cpc, now, cts, cwake, nticks, craw, cassets, cpoints, ck, stored,
                   cresult, clogged, tickErr, tickBase, cancelledAt>>
    /\ UNCHANGED <<psvars, svars>>

CrawlCancelled_as_error(done) ==
    /\ ccancel /\ cpc \in {"fetch", "assets", "insert", "notify", "sleep"}
    /\ ~done
    /\ cancelledAt' = cpc
    /\ LogError("store")
    /\ ccancel' = FALSE
    /\ UNCHANGED <<now, cts, nticks, craw, cassets, cpoints, ck, stored, cresult,
                   tickBase>>
    /\ UNCHANGED <<psvars, svars>>

\* CancelledError is raised at the await the crawler is suspended at: it
\* passes `except ClientError` and `except Exception`, is caught by the outer
\* `except asyncio.CancelledError`, and crawl returns. `done` tells whether
\* the statement in flight had taken effect in the store when it was
\* interrupted.
CrawlCancelled(done) ==
    /\ ccancel /\ cpc \in {"fetch", "assets", "insert", "notify", "sleep"}
    /\ done => cpc \in {"insert", "notify"}
    /\ cpc' = "finished"
    /\ cresult' = "returned"
    /\ cancelledAt' = cpc
    /\ stored' = IF done /\ cpc = "insert" THEN Append(stored, cpoints[ck]) ELSE stored
    /\ IF done /\ cpc = "notify" THEN Notify(cpoints[ck]) ELSE UNCHANGED psvars
    /\ UNCHANGED <<now, cts, cwake, nticks, craw, cassets, cpoints, ck, ccancel,
                   clogged, tickErr, tickBase>>
    /\ UNCHANGED svars

\* time passes; the timer of a sleep that is due fires before the clock
\* moves on
ClockTick ==
    /\ now < MaxTime
    /\ ~(cpc = "sleep" /\ ~ccancel /\ now >= cwake)
    /\ now' = now + 1
    /\ UNCHANGED <<cpc, cts, cwake, nticks, craw, cassets, cpoints, ck, stored,
                   ccancel, cresult, clogged, tickErr, tickBase, cancelledAt>>
    /\ UNCHANGED <<psvars, svars>>

\* parse_raw applied to the inputs of the initial state
ParseStep ==
    /\ cpc = "parse"
    /\ LET parsed == parse_raw(craw, IntTs(cts), cassets)
       IN /\ cpoints' = parsed.points
          /\ cpc' = IF parsed.err THEN "parse_error" ELSE "parsed"
    /\ UNCHANGED <<now, cts, cwake, nticks, craw, cassets, ck, stored, ccancel,
                   cresult, clogged, tickErr, tickBase, cancelledAt>>
    /\ UNCHANGED <<psvars, svars>>

\* ------------------------------------- storage.py: SubscriptionManager
\* One step per stretch of code between two awaits that suspend.  The store
\* calls of the manager succeed unless the connection they are issued on has
\* been released or has another operation in flight.

\* self._connection is None
NoConn == 0

\* the contexts `subscription_manager.subscribe(channel, callback)`, one per
\* subscriber of a channel
Ctxs == 1..NumCtx

\* the callbacks registered on connection k for channel c; a listener
\* <<k, c, x>> is the callback `partial(self._subscribe_callback, ...)` of
\* context x, and a connection is named after the context that acquired it
ListenersOf(lst, k, c) == { l \in lst : l[1] = k /\ l[2] = c }

\* the callbacks an upstream notification on channel c is passed to
ChannelListeners(c) == { l \in listeners : l[2] = c }

\* a statement of another context is in flight on connection k
Busy(k) == \E y \in Ctxs : mpc[y] \in {"add", "remove"} /\ conn[y] = k

\* `self._channels.remove(channel)`: KeyError when the channel is not there
RemoveChannel(chans, c, exc) ==
    [channels |-> chans \ {c},
     exc |-> IF c \in chans THEN exc ELSE "KeyError"]

\* the end of `async with self._acquire() as conn`, with the pending
\* exception exc: __aexit__ of acquire_ctx releases the connection the
\* context acquired (the pool resets it, which drops its listeners) and is
\* a no-op for nullcontext; the `finally` of _acquire follows
Leave(x, rc, h, lst, chans, exc) ==
    /\ _channels' = chans
    /\ mexc' = [mexc EXCEPT ![x] = exc]
    /\ IF rc
       THEN /\ held' = h \ {x}
            /\ listeners' = { l \in lst : l[1] # x }
            /\ mpc' = [mpc EXCEPT ![x] = "release"]
       ELSE /\ held' = h
            /\ listeners' = lst
            /\ mpc' = [mpc EXCEPT ![x] = IF exc = "none" THEN "done" ELSE "raised"]

\* subscribe, from `try:` to `yield`, on connection k held as in h
Enter(x, c, k, h, nc, rc) ==
    IF ~nc
    THEN /\ mpc' = [mpc EXCEPT ![x] = "active"]
         /\ held' = h
         /\ UNCHANGED <<listeners, _channels, mexc>>
    ELSE IF k \notin h
    THEN \* add_listener and, in `finally`, remove_listener raise
         \* InterfaceError: the connection is back in the pool
         Leave(x, rc, h, listeners, _channels, "InterfaceError")
    ELSE IF ListenersOf(listeners, k, c) # {}
    THEN \* the connection listens on c already: no LISTEN is sent
         /\ listeners' = listeners \cup {<<k, c, x>>}
         /\ _channels' = _channels \cup {c}
         /\ mpc' = [mpc EXCEPT ![x] = "active"]
         /\ held' = h
         /\ UNCHANGED mexc
    ELSE IF Busy(k)
    THEN \* LISTEN raises InterfaceError (another operation is in progress);
         \* `finally`: remove_listener finds no callback, _channels.remove
         LET r == RemoveChannel(_channels, c, "InterfaceError")
         IN Leave(x, rc, h, listeners, r.channels, r.exc)
    ELSE \* suspended in LISTEN
         /\ mpc' = [mpc EXCEPT ![x] = "add"]
         /\ held' = h
         /\ UNCHANGED <<listeners, _channels, mexc>>

\* the other subscribe of the same channel that context x overlaps with:
\* a first subscribe of the channel that is suspended acquiring the
\* connection or adding the listener
Overlapped(x, c) ==
    { y \in Ctxs \ {x} : /\ mchan[y] = c /\ new_channel[y]
                         /\ mpc[y] \in {"acquire", "add"}
                         /\ c \notin _channels
                         /\ ChannelListeners(c) = {} }

\* subscribe(channel, callback) is entered: new_channel, then _acquire up to
\* the acquire of a connection, or with the shared connection up to the
\* LISTEN or the yield
MSubscribe(x, c) ==
    /\ mpc[x] = "idle"
    /\ mchan' = [mchan EXCEPT ![x] = c]
    /\ new_channel' = [new_channel EXCEPT ![x] = c \notin _channels]
    /\ movl' = [movl EXCEPT ![x] = IF Overlapped(x, c) = {} THEN 0
                                   ELSE CHOOSE y \in Overlapped(x, c) : TRUE]
    /\ IF _connection = NoConn
       THEN /\ reset_conn' = [reset_conn EXCEPT ![x] = TRUE]
            /\ mpc' = [mpc EXCEPT ![x] = "acquire"]
            /\ UNCHANGED <<conn, held, listeners, _channels, mexc>>
       ELSE /\ reset_conn' = [reset_conn EXCEPT ![x] = FALSE]
            /\ conn' = [conn EXCEPT ![x] = _connection]
            /\ Enter(x, c, _connection, held, c \notin _channels, FALSE)
    /\ UNCHANGED <<_connection, mnotes, mcalls, mlast>>

\* acquire_connection() returns a connection of the pool: it becomes
\* self._connection and the `conn` of subscribe
MAcquired(x) ==
    /\ mpc[x] = "acquire"
    /\ _connection' = x
    /\ conn' = [conn EXCEPT ![x] = x]
    /\ Enter(x, mchan[x], x, held \cup {x}, new_channel[x], reset_conn[x])
    /\ UNCHANGED <<mchan, new_channel, reset_conn, movl, mnotes, mcalls, mlast>>

\* LISTEN returns: the callback is registered, `self._channels.add(channel)`,
\* `yield`; on a connection released in the meantime the statement fails
MAdded(x) ==
    /\ mpc[x] = "add"
    /\ IF conn[x] \in held
       THEN /\ listeners' = listeners \cup {<<conn[x], mchan[x], x>>}
            /\ _channels' = _channels \cup {mchan[x]}
            /\ mpc' = [mpc EXCEPT ![x] = "active"]
            /\ UNCHANGED <<held, mexc>>
       ELSE Leave(x, reset_conn[x], held, listeners, _channels, "InterfaceError")
    /\ UNCHANGED <<_connection, conn, mchan, new_channel, reset_conn, movl, mnotes,
                   mcalls, mlast>>

\* the caller leaves the context: `finally` of subscribe up to the UNLISTEN,
\* or through to the end of _acquire
MExit(x) ==
    /\ mpc[x] = "active"
    /\ LET k == conn[x]
           c == mchan[x]
           lst == listeners \ {<<k, c, x>>}
       IN IF ~new_channel[x]
          THEN Leave(x, reset_conn[x], held, listeners, _channels, "none")
          ELSE IF k \notin held
          THEN \* remove_listener raises InterfaceError
               Leave(x, reset_conn[x], held, listeners, _channels, "InterfaceError")
          ELSE IF ListenersOf(lst, k, c) # {}
          THEN \* other callbacks of the channel remain: no UNLISTEN
               LET r == RemoveChannel(_channels, c, "none")
               IN Leave(x, reset_conn[x], held, lst, r.channels, r.exc)
          ELSE IF Busy(k)
          THEN Leave(x, reset_conn[x], held, lst, _channels, "InterfaceError")
          ELSE /\ mpc' = [mpc EXCEPT ![x] = "remove"]
               /\ listeners' = lst
               /\ UNCHANGED <<held, _channels, mexc>>
    /\ UNCHANGED <<_connection, conn, mchan, new_channel, reset_conn, movl, mnotes,
                   mcalls, mlast>>

\* UNLISTEN returns: `self._channels.remove(channel)`, then the end of
\* _acquire
MRemoved(x) ==
    /\ mpc[x] = "remove"
    /\ IF conn[x] \in held
       THEN LET r == RemoveChannel(_channels, mchan[x], "none")
            IN Leave(x, reset_conn[x], held, listeners, r.channels, r.exc)
       ELSE Leave(x, reset_conn[x], held, listeners, _channels, "InterfaceError")
    /\ UNCHANGED <<_connection, conn, mchan, new_channel, reset_conn, movl, mnotes,
                   mcalls, mlast>>

\* the release of the connection returns: `self._connection = None`
MReleased(x) ==
    /\ mpc[x] = "release"
    /\ _connection' = NoConn
    /\ mpc' = [mpc EXCEPT ![x] = IF mexc[x] = "none" THEN "done" ELSE "raised"]
    /\ UNCHANGED <<_channels, held, listeners, conn, mchan, new_channel, reset_conn,
                   mexc, movl, mnotes, mcalls, mlast>>

\* an upstream notification on channel c (pg_notify of any process): every
\* registered callback of the channel is called once, and passes the point
\* to its publish callback
MNotify(c) ==
    /\ mnotes < MaxNotes
    /\ mnotes' = mnotes + 1
    /\ mlast' = c
    /\ mcalls' = Cardinality(ChannelListeners(c))
    /\ UNCHANGED <<_channels, _connection, held, listeners, mpc, mchan, new_channel,
                   reset_conn, conn, mexc, movl>>

\* SubscriptionManager.__init__, and no context yet
MInit ==
    /\ _channels = {}
    /\ _connection = NoConn
    /\ held = {}
    /\ listeners = {}
    /\ mpc = [x \in Ctxs |-> "idle"]
    /\ mchan = [x \in Ctxs |-> NoChan]
    /\ new_channel = [x \in Ctxs |-> FALSE]
    /\ reset_conn = [x \in Ctxs |-> FALSE]
    /\ conn = [x \in Ctxs |-> NoConn]
    /\ mexc = [x \in Ctxs |-> "none"]
    /\ movl = [x \in Ctxs |-> 0]
    /\ mnotes = 0
    /\ mcalls = 0
    /\ mlast = NoChan

\* ------------------------------------------------------------------ Init

Init ==
    /\ CHANNELS = <<>>
    /\ subChan = [s \in SubIds |-> NoChan]
    /\ subState = [s \in SubIds |-> "none"]
    /\ queue = [s \in SubIds |-> <<>>]
    /\ npub = 0
    /\ published = [c \in Names |-> <<>>]
    /\ offered = [s \in SubIds |-> <<>>]
    /\ received = [s \in SubIds |-> <<>>]
    /\ sinceFirst = [s \in SubIds |-> FALSE]
    /\ wasFull = [s \in SubIds |-> FALSE]
    /\ hpc = [x \in Sessions |-> "recv"]
    /\ subscribe_task = [x \in Sessions |-> NoTask]
    /\ hexc = [x \in Sessions |-> "none"]
    /\ nrecv = [x \in Sessions |-> 0]
    /\ hmsg = [x \in Sessions |-> NoId]
    /\ lastInvalid = [x \in Sessions |-> FALSE]
    /\ lastAssets = [x \in Sessions |-> "no"]
    /\ out = [x \in Sessions |-> <<>>]
    /\ tstate = [t \in SubIds |-> "none"]
    /\ towner = [t \in SubIds |-> NoSession]
    /\ treq = [t \in SubIds |-> [t |-> "none", v |-> 0]]
    /\ tcancel = [t \in SubIds |-> FALSE]
    /\ texc = [t \in SubIds |-> "none"]
    /\ cpc = "start"
    /\ now = 0
    /\ cts = 0
    /\ cwake = 0
    /\ nticks = 0
    /\ craw = NoPayload
    /\ cassets = <<>>
    /\ cpoints = <<>>
    /\ ck = 0
    /\ stored = <<>>
    /\ ccancel = FALSE
    /\ cresult = "pending"
    /\ clogged = 0
    /\ tickErr = "none"
    /\ tickBase = <<0, 0, 0>>
    /\ cancelledAt = "-"
    /\ MInit

\* ------------------------------------------------------------ PubSubSpec

PubSubNext ==
    \/ \E s \in SubIds, c \in Names : SubInit(s, c) /\ UNCHANGED <<svars, cvars>> /\ UNCHANGED mvars
    \/ \E s \in SubIds : SubEnter(s) /\ UNCHANGED <<svars, cvars>> /\ UNCHANGED mvars
    \/ \E s \in SubIds : SubExit(s) /\ UNCHANGED <<svars, cvars>> /\ UNCHANGED mvars
    \/ \E s \in SubIds : SubGet(s) /\ UNCHANGED <<svars, cvars>> /\ UNCHANGED mvars
    \/ \E c \in Names : Publish(c) /\ UNCHANGED <<svars, cvars>> /\ UNCHANGED mvars

PubSubSpec == Init /\ [][PubSubNext]_vars

\* ------------------------------------------------------------------ Spec

Next ==
    \/ \E x \in Sessions, raw \in RawMessages : Receive(x, raw) /\ UNCHANGED cvars /\ UNCHANGED mvars
    \/ \E x \in Sessions : Close(x) /\ UNCHANGED cvars /\ UNCHANGED mvars
    \/ \E x \in Sessions : CancelReturns(x) /\ UNCHANGED cvars /\ UNCHANGED mvars
    \/ \E t \in SubIds : TaskStart(t) /\ UNCHANGED cvars /\ UNCHANGED mvars
    \/ \E t \in SubIds, ok \in BOOLEAN : TaskLookup(t, ok) /\ UNCHANGED cvars /\ UNCHANGED mvars
    \/ \E t \in SubIds, ok \in BOOLEAN : TaskHistory(t, ok) /\ UNCHANGED cvars /\ UNCHANGED mvars
    \/ \E t \in SubIds : TaskSubscribe(t) /\ UNCHANGED cvars /\ UNCHANGED mvars
    \/ \E t \in SubIds : TaskForward(t) /\ UNCHANGED cvars /\ UNCHANGED mvars
    \/ \E t \in SubIds : TaskCancelled(t) /\ UNCHANGED cvars /\ UNCHANGED mvars
    \/ \E c \in Names : Publish(c) /\ UNCHANGED <<svars, cvars>> /\ UNCHANGED mvars

Spec == Init /\ [][Next]_vars

\* ------------------------------------------------------------- SendSpec
\* The session with every `await send_ws_message(...)` split at its
\* suspension point: ws.send_json writes the frame and may then wait for the
\* transport to drain before it returns. A writer is inside a send from the
\* step that writes its frame until the step in which the send returns:
\*   hpc = "assets_query"  ws_handler awaits get_available_assets
\*   hpc = "assets_send"   ws_handler awaits the send of the assets reply
\*   tstate = "sent"       the task awaits the send of its asset_history
\*   tstate = "sending"    the task awaits the send of a point frame

\* ws_handler reads a well-formed assets frame and enters assets_handler
ReceiveAssets(x, raw) ==
    /\ hpc[x] = "recv"
    /\ nrecv[x] < MaxMsgs
    /\ Yielded(raw) /\ raw.action = ACTION_ASSETS
    /\ nrecv' = [nrecv EXCEPT ![x] = @ + 1]
    /\ lastInvalid' = [lastInvalid EXCEPT ![x] = FALSE]
    /\ hpc' = [hpc EXCEPT ![x] = "assets_query"]
    /\ UNCHANGED <<psvars, subscribe_task, hexc, hmsg, lastAssets, out, tstate,
                   towner, treq, tcancel, texc>>

\* get_available_assets returns (or raises): the assets reply is written
AssetsQueried(x, ok) ==
    /\ hpc[x] = "assets_query"
    /\ lastAssets' = [lastAssets EXCEPT ![x] = IF ok THEN "ok" ELSE "error"]
    /\ IF ok
       THEN /\ out' = [out EXCEPT ![x] =
                         Append(@, build_assets_message(get_available_assets))]
            /\ hpc' = [hpc EXCEPT ![x] = "assets_send"]
            /\ UNCHANGED <<hexc, tcancel, subscribe_task, tstate, towner, treq, hmsg>>
       ELSE Finally(x, "StoreError")
    /\ UNCHANGED <<psvars, texc, nrecv, lastInvalid>>

\* the send of the assets reply returns: back to the receive loop
AssetsSent(x) ==
    /\ hpc[x] = "assets_send"
    /\ hpc' = [hpc EXCEPT ![x] = "recv"]
    /\ UNCHANGED <<psvars, subscribe_task, hexc, nrecv, hmsg, lastInvalid,
                   lastAssets, out, tstate, towner, treq, tcancel, texc>>

\* any other frame: one iteration of the receive loop, as in Spec
ReceiveOther(x, raw) ==
    /\ ~(Yielded(raw) /\ raw.action = ACTION_ASSETS)
    /\ Receive(x, raw)

\* sub.get() returns a point; the task writes its point frame and awaits
\* the send
TaskGet(t) ==
    /\ tstate[t] = "forwarding" /\ ~tcancel[t]
    /\ queue[t] # <<>>
    /\ tstate' = [tstate EXCEPT ![t] = "sending"]
    /\ received' = [received EXCEPT ![t] = Append(@, Head(queue[t]))]
    /\ queue' = [queue EXCEPT ![t] = Tail(@)]
    /\ out' = [out EXCEPT ![towner[t]] =
                 Append(@, build_point_message(Head(queue[t]), t))]
    /\ UNCHANGED <<CHANNELS, subChan, subState, npub, published, offered,
                   sinceFirst, wasFull>>
    /\ UNCHANGED <<hpc, subscribe_task, hexc, nrecv, hmsg, lastInvalid, lastAssets,
                   towner, treq, tcancel, texc>>

\* the send of the point frame returns: back to sub.get()
TaskSent(t) ==
    /\ tstate[t] = "sending" /\ ~tcancel[t]
    /\ tstate' = [tstate EXCEPT ![t] = "forwarding"]
    /\ UNCHANGED <<psvars, hpc, subscribe_task, hexc, nrecv, hmsg, lastInvalid,
                   lastAssets, out, towner, treq, tcancel, texc>>

\* the requested cancellation reaches the task inside the send of a point
\* frame: CancelledError leaves the subscription's with-block
TaskSendCancelled(t) ==
    /\ tcancel[t] /\ tstate[t] = "sending"
    /\ tstate' = [tstate EXCEPT ![t] = "cancelled"]
    /\ tcancel' = [tcancel EXCEPT ![t] = FALSE]
    /\ subState' = [subState EXCEPT ![t] = "exited"]
    /\ CHANNELS' = channel_unsubscribe(CHANNELS, subChan[t], t)
    /\ sinceFirst' = [sinceFirst EXCEPT ![t] = FALSE]
    /\ UNCHANGED <<subChan, queue, npub, published, offered, received, wasFull>>
    /\ UNCHANGED <<hpc, subscribe_task, hexc, nrecv, hmsg, lastInvalid, lastAssets,
                   out, towner, treq, texc>>

SendNext ==
    \/ \E x \in Sessions, raw \in RawMessages : ReceiveAssets(x, raw) /\ UNCHANGED cvars /\ UNCHANGED mvars
    \/ \E x \in Sessions, ok \in BOOLEAN : AssetsQueried(x, ok) /\ UNCHANGED cvars /\ UNCHANGED mvars
    \/ \E x \in Sessions : AssetsSent(x) /\ UNCHANGED cvars /\ UNCHANGED mvars
    \/ \E x \in Sessions, raw \in RawMessages : ReceiveOther(x, raw) /\ UNCHANGED cvars /\ UNCHANGED mvars
    \/ \E x \in Sessions : Close(x) /\ UNCHANGED cvars /\ UNCHANGED mvars
    \/ \E x \in Sessions : CancelReturns(x) /\ UNCHANGED cvars /\ UNCHANGED mvars
    \/ \E t \in SubIds : TaskStart(t) /\ UNCHANGED cvars /\ UNCHANGED mvars
    \/ \E t \in SubIds, ok \in BOOLEAN : TaskLookup(t, ok) /\ UNCHANGED cvars /\ UNCHANGED mvars
    \/ \E t \in SubIds, ok \in BOOLEAN : TaskHistory(t, ok) /\ UNCHANGED cvars /\ UNCHANGED mvars
    \/ \E t \in SubIds : TaskSubscribe(t) /\ UNCHANGED cvars /\ UNCHANGED mvars
    \/ \E t \in SubIds : TaskGet(t) /\ UNCHANGED cvars /\ UNCHANGED mvars
    \/ \E t \in SubIds : TaskSent(t) /\ UNCHANGED cvars /\ UNCHANGED mvars
    \/ \E t \in SubIds : TaskSendCancelled(t) /\ UNCHANGED cvars /\ UNCHANGED mvars
    \/ \E t \in SubIds : TaskCancelled(t) /\ UNCHANGED cvars /\ UNCHANGED mvars
    \/ \E c \in Names : Publish(c) /\ UNCHANGED <<svars, cvars>> /\ UNCHANGED mvars

SendSpec == Init /\ [][SendNext]_vars

\* ------------------------------------------------------------ ParseSpec

ParseInit ==
    /\ \E raw \in Payloads, ts \in 0..MaxTime, assets \in AssetLists :
          /\ craw = raw /\ cts = ts /\ cassets = assets
    /\ cpc = "parse"
    /\ now = 0 /\ cwake = 0 /\ nticks = 0 /\ cpoints = <<>> /\ ck = 0
    /\ stored = <<>> /\ ccancel = FALSE /\ cresult = "pending" /\ clogged = 0
    /\ tickErr = "none" /\ tickBase = <<0, 0, 0>> /\ cancelledAt = "-"
    /\ CHANNELS = <<>>
    /\ subChan = [s \in SubIds |-> NoChan]
    /\ subState = [s \in SubIds |-> "none"]
    /\ queue = [s \in SubIds |-> <<>>]
    /\ npub = 0
    /\ published = [c \in Names |-> <<>>]
    /\ offered = [s \in SubIds |-> <<>>]
    /\ received = [s \in SubIds |-> <<>>]
    /\ sinceFirst = [s \in SubIds |-> FALSE]
    /\ wasFull = [s \in SubIds |-> FALSE]
    /\ hpc = [x \in Sessions |-> "recv"]
    /\ subscribe_task = [x \in Sessions |-> NoTask]
    /\ hexc = [x \in Sessions |-> "none"]
    /\ nrecv = [x \in Sessions |-> 0]
    /\ hmsg = [x \in Sessions |-> NoId]
    /\ lastInvalid = [x \in Sessions |-> FALSE]
    /\ lastAssets = [x \in Sessions |-> "no"]
    /\ out = [x \in Sessions |-> <<>>]
    /\ tstate = [t \in SubIds |-> "none"]
    /\ towner = [t \in SubIds |-> NoSession]
    /\ treq = [t \in SubIds |-> [t |-> "none", v |-> 0]]
    /\ tcancel = [t \in SubIds |-> FALSE]
    /\ texc = [t \in SubIds |-> "none"]
    /\ MInit

ParseNext == ParseStep /\ UNCHANGED mvars

ParseSpec == ParseInit /\ [][ParseNext]_vars

\* ------------------------------------------------------------ CrawlSpec

CrawlNext ==
    \/ CrawlStart /\ UNCHANGED mvars
    \/ CrawlWake /\ UNCHANGED mvars
    \/ \E outcome \in {"ok", "ClientError", "TimeoutError"}, raw \in CrawlPayloads :
          CrawlFetched(outcome, raw) /\ UNCHANGED mvars
    \/ \E ok \in BOOLEAN : CrawlAssets(ok) /\ UNCHANGED mvars
    \/ \E ok \in BOOLEAN : CrawlInsert(ok) /\ UNCHANGED mvars
    \/ \E ok \in BOOLEAN : CrawlNotify(ok) /\ UNCHANGED mvars
    \/ CrawlCancel /\ UNCHANGED mvars
    \/ \E done \in BOOLEAN : CrawlCancelled(done) /\ UNCHANGED mvars
    \/ ClockTick /\ UNCHANGED mvars
    \/ \E s \in CrawlSubs, c \in Names : SubInit(s, c) /\ UNCHANGED <<svars, cvars>> /\ UNCHANGED mvars
    \/ \E s \in CrawlSubs : SubEnter(s) /\ UNCHANGED <<svars, cvars>> /\ UNCHANGED mvars
    \/ \E s \in CrawlSubs : SubExit(s) /\ UNCHANGED <<svars, cvars>> /\ UNCHANGED mvars
    \/ \E s \in CrawlSubs : SubGet(s) /\ UNCHANGED <<svars, cvars>> /\ UNCHANGED mvars

CrawlSpec == Init /\ [][CrawlNext]_vars

\* ---------------------------------------------------------- ManagerSpec

ManagerNext ==
    \/ \E x \in Ctxs, c \in Names : MSubscribe(x, c) /\ UNCHANGED <<psvars, svars, cvars>>
    \/ \E x \in Ctxs : MAcquired(x) /\ UNCHANGED <<psvars, svars, cvars>>
    \/ \E x \in Ctxs : MAdded(x) /\ UNCHANGED <<psvars, svars, cvars>>
    \/ \E x \in Ctxs : MExit(x) /\ UNCHANGED <<psvars, svars, cvars>>
    \/ \E x \in Ctxs : MRemoved(x) /\ UNCHANGED <<psvars, svars, cvars>>
    \/ \E x \in Ctxs : MReleased(x) /\ UNCHANGED <<psvars, svars, cvars>>
    \/ \E c \in Names : MNotify(c) /\ UNCHANGED <<psvars, svars, cvars>>

ManagerSpec == Init /\ [][ManagerNext]_vars

\* ------------------------------------------------------- registry claims

\* q is a subsequence of r when both are duplicate-free
IsSubseq(q, r) ==
    /\ \A i \in DOMAIN q : \E j \in DOMAIN r : r[j] = q[i]
    /\ \A i, j \in DOMAIN q : i < j =>
          \E k, l \in DOMAIN r : k < l /\ r[k] = q[i] /\ r[l] = q[j]

\* C1: a subscriber that entered its channel before the channel's first
\* publish, was never unsubscribed and whose queue was never full has
\* dequeued a prefix of the published points and holds the rest in its
\* queue, in publish order: once its queue is drained it has dequeued
\* exactly the published points.
C1_ReceivesAllInOrder ==
    \A s \in SubIds :
        (sinceFirst[s] /\ ~wasFull[s]) =>
            received[s] \o queue[s] = published[subChan[s]]

C1_Witness ==
    \E s \in SubIds :
        /\ sinceFirst[s] /\ ~wasFull[s]
        /\ Len(received[s]) >= 2
        /\ queue[s] = <<>>
        /\ received[s] = published[subChan[s]]

\* C2: what a subscription has dequeued is a subsequence of the points
\* published to its own channel while it was subscribed: no point of another
\* channel, no point twice, no two points out of publish order.
C2_DequeuedIsSubsequence ==
    \A s \in SubIds :
        /\ \A i \in DOMAIN received[s] : received[s][i].chan = subChan[s]
        /\ \A i, j \in DOMAIN received[s] :
              i < j => received[s][i].id < received[s][j].id
        /\ IsSubseq(received[s], offered[s])

C2_Witness ==
    \E s \in SubIds :
        /\ subState[s] = "exited"
        /\ Len(received[s]) >= 1
        /\ Len(offered[s]) < Len(published[subChan[s]])
        /\ \E c \in Names : c # subChan[s] /\ published[c] # <<>>

\* C3: a publish appends the point to every subscriber queue of the channel
\* that has room and leaves a full queue as it is (the point is dropped for
\* that subscriber only); no queue ever exceeds its capacity.
C3_PublishStep ==
    \A c \in Names :
        Len(published'[c]) > Len(published[c]) =>
            \A s \in Subscribers(CHANNELS, c) :
                queue'[s] = IF Len(queue[s]) >= QueueMaxSize
                            THEN queue[s]
                            ELSE Append(queue[s], Last(published'[c]))

C3_DropOnFullOnly ==
    /\ [](\A s \in SubIds : Len(queue[s]) <= QueueMaxSize)
    /\ [][C3_PublishStep]_vars

\* a subscriber has lost a point to its full queue while another
\* subscriber of the same channel received that point
C3_Witness ==
    \E s, r \in SubIds :
        /\ s # r /\ subChan[s] = subChan[r]
        /\ Len(queue[s]) = QueueMaxSize
        /\ offered[s] # <<>> /\ offered[r] # <<>>
        /\ Last(offered[s]) = Last(offered[r])
        /\ Last(offered[s]) \notin Range(queue[s]) \cup Range(received[s])
        /\ Last(offered[r]) \in Range(queue[r])

\* C4 (as claimed): a channel record exists for a name exactly when the
\* name has a live subscription (a Subscription object constructed for it
\* and not yet exited).
C4_RecordIffSubscribed ==
    \A c \in Names :
        c \in DOMAIN CHANNELS <=>
            \E s \in SubIds : subChan[s] = c /\ subState[s] \in {"init", "entered"}

\* -------------------------------------------------------- session claims

TasksOf(x) == {t \in SubIds : towner[t] = x}

Registered(t) == \E c \in DOMAIN CHANNELS : t \in CHANNELS[c]

\* the frames of out[x] written by task t, in order
TaskMsgs(t) ==
    IF towner[t] = NoSession THEN <<>>
    ELSE SelectSeq(out[towner[t]], LAMBDA m : m.sub = t)

KnownRequest(t) == treq[t].t = "int" /\ get_asset_by_id(treq[t].v) # NoAsset

RequestedSymbol(req) ==
    IF req.t = "int" THEN get_asset_by_id(req.v).symbol ELSE NoChan

\* the frames a task writes for the points in q
PointMsgs(q, t) == [i \in DOMAIN q |-> build_point_message(q[i], t)]

\* C5: a session never has two forwarding tasks that have not terminated,
\* nor two subscriptions in the registry; every task other than the current
\* subscribe_task has terminated and released its subscription.
C5_OneTaskPerSession ==
    \A x \in Sessions :
        /\ Cardinality({t \in TasksOf(x) : tstate[t] \in Live}) <= 1
        /\ Cardinality({t \in TasksOf(x) : Registered(t)}) <= 1
        /\ \A t \in TasksOf(x) :
              t # subscribe_task[x] => tstate[t] \in Finished /\ ~Registered(t)

C5_Witness ==
    \E x \in Sessions : \E t1, t2 \in TasksOf(x) :
        /\ tstate[t1] = "cancelled" /\ subState[t1] = "exited"
        /\ t2 = subscribe_task[x] /\ tstate[t2] = "forwarding"

\* the asset named by the subscribe request the session handled last
CurrentRequest(x) ==
    IF hpc[x] = "cancelling" THEN hmsg[x]
    ELSE IF subscribe_task[x] = NoTask THEN NoId
    ELSE treq[subscribe_task[x]]

\* C6: every point frame written on a connection is for the asset of the
\* subscribe request the session handled last: once the session has handled
\* a subscribe for Y, no point of the previously subscribed X is sent.
C6_PointStep ==
    \A x \in Sessions :
        (Len(out'[x]) > Len(out[x]) /\ Last(out'[x]).action = "point") =>
            Last(out'[x]).asset = RequestedSymbol(CurrentRequest(x))

C6_NoPointOfPreviousAsset == [][C6_PointStep]_vars

C6_Witness ==
    \E x \in Sessions : \E t1, t2 \in TasksOf(x) :
        /\ t2 = subscribe_task[x] /\ tstate[t2] = "forwarding"
        /\ subState[t1] = "exited" /\ subChan[t1] # subChan[t2]
        /\ received[t1] # <<>> /\ received[t2] # <<>>
        /\ Last(published[subChan[t1]]).id > Last(received[t1]).id
        /\ Last(out[x]) = build_point_message(Last(received[t2]), t2)

\* C7: once ws_handler has left its finally block, every task of the session
\* has terminated, the registry holds no subscription of the session, and
\* nothing more is written to its websocket.
C7_Released ==
    \A x \in Sessions :
        hpc[x] \in {"done", "failed"} =>
            \A t \in TasksOf(x) : tstate[t] \in Finished /\ ~Registered(t)

C7_SilentStep ==
    \A x \in Sessions : hpc[x] \in {"done", "failed"} => out'[x] = out[x]

C7_ClosedSessionIsReleased == []C7_Released /\ [][C7_SilentStep]_vars

\* the receive loop ended by an exception while a task was forwarding, and
\* a point was published to the task's channel afterwards
C7_Witness ==
    \E x \in Sessions : \E t \in TasksOf(x) :
        /\ hpc[x] = "failed" /\ hexc[x] = "StoreError"
        /\ tstate[t] = "cancelled" /\ subState[t] = "exited"
        /\ received[t] # <<>>
        /\ Len(published[subChan[t]]) > Len(offered[t])

\* m is the asset_history frame of task t: it carries the asset the task was
\* asked for and a prefix of the points stored for it
IsHistoryReply(m, t) ==
    LET asset == get_asset_by_id(treq[t].v)
        hist == get_asset_history(asset)
    IN /\ m.action = "asset_history" /\ m.sub = t /\ m.point = 0
       /\ m.asset = asset.symbol
       /\ Len(m.items) <= Len(hist)
       /\ \A i \in DOMAIN m.items : m.items[i] = serialize_point(hist[i])

\* the frames ms are the asset_history frame of task t followed by one
\* point frame per point of q, in order
HistoryThenPoints(ms, t, q) ==
    /\ Len(ms) = 1 + Len(q)
    /\ IsHistoryReply(ms[1], t)
    /\ \A i \in DOMAIN q : ms[i + 1] = build_point_message(q[i], t)

\* C8 (as claimed): a subscribe request for a known asset whose task has
\* ended without an error got exactly one asset_history frame, before any
\* point frame, and one point frame per point delivered to its queue.
C8_ExactlyOneHistory ==
    \A t \in SubIds :
        (tstate[t] \in Finished /\ texc[t] = "none" /\ KnownRequest(t)) =>
            HistoryThenPoints(TaskMsgs(t), t, received[t] \o queue[t])

\* C8 (amended): a subscribe request for a known asset gets at most one
\* asset_history frame, exactly one once its task has read the history and
\* not before; that frame precedes every point frame of the subscription;
\* the point frames are the points the task dequeued, in queue order; and
\* every frame on the connection is an assets reply or belongs to a task of
\* the session and carries the asset that task was asked for.
C8_HistoryThenDequeuedPoints ==
    /\ \A t \in SubIds :
          LET ms == TaskMsgs(t)
          IN IF tstate[t] \in {"none", "created", "lookup", "history", "done", "failed"}
             THEN ms = <<>>
             ELSE IF tstate[t] \in {"sent", "forwarding"}
             THEN KnownRequest(t) /\ HistoryThenPoints(ms, t, received[t])
             ELSE \/ ms = <<>>
                  \/ KnownRequest(t) /\ HistoryThenPoints(ms, t, received[t])
    /\ \A x \in Sessions : \A i \in DOMAIN out[x] :
          \/ out[x][i] = build_assets_message(get_available_assets)
          \/ /\ out[x][i].sub \in TasksOf(x)
             /\ out[x][i].asset = RequestedSymbol(treq[out[x][i].sub])

C8_Witness ==
    \E t \in SubIds :
        /\ tstate[t] = "cancelled"
        /\ Len(received[t]) >= 1 /\ queue[t] # <<>>
        /\ Len(TaskMsgs(t)) = 1 + Len(received[t])
        /\ \E r \in SubIds : r # t /\ towner[r] = towner[t] /\ KnownRequest(r)
                             /\ tstate[r] = "cancelled" /\ TaskMsgs(r) = <<>>

\* C9: reading a malformed frame changes nothing but the read position: no
\* frame is written, no task is created, cancelled or advanced, the registry
\* is untouched and ws_handler keeps waiting for the next frame.
C9_DiscardStep ==
    \A x \in Sessions :
        (nrecv'[x] = nrecv[x] + 1 /\ lastInvalid'[x]) =>
            /\ hpc'[x] = "recv"
            /\ UNCHANGED <<out, subscribe_task, hexc, hmsg, tstate, towner,
                           treq, tcancel, texc, psvars>>

C9_MalformedFrameDiscarded == [][C9_DiscardStep]_vars

C9_Witness ==
    \E x \in Sessions :
        /\ lastInvalid[x] /\ hpc[x] = "recv" /\ nrecv[x] >= 2
        /\ subscribe_task[x] # NoTask
        /\ tstate[subscribe_task[x]] = "forwarding"
        /\ received[subscribe_task[x]] # <<>>

\* C10 (as claimed): a subscribe request whose assetId is missing, is not
\* an integer or names no asset raises nothing: ws_handler is never ended
\* by the exception of such a request.
C10_BadAssetIdIsHarmless ==
    \A x \in Sessions : hexc[x] # "UnboundLocalError"

\* C11 (as claimed): a subscribe request whose assetId is an integer that
\* names no asset does nothing to the session: ws_handler never cancels a
\* task that holds a forwarding subscription on behalf of such a request.
C11_NotFoundKeepsSubscription ==
    \A x \in Sessions :
        (/\ hpc[x] = "cancelling"
         /\ subChan[subscribe_task[x]] # NoChan) =>
            ~(hmsg[x].t = "int" /\ get_asset_by_id(hmsg[x].v) = NoAsset)

\* C12 (as claimed): a store query that fails while an assets or a
\* subscribe request is processed drops that request only: ws_handler is
\* never ended by the store's exception, neither when the query fails nor
\* later when the failed task is awaited in _cancel_task.
C12_StoreFailureDropsRequestOnly ==
    \A x \in Sessions : hexc[x] # "StoreError"

\* the assets reply for the seeded table: every asset once, in store order
AssetsReply ==
    [action |-> "assets", asset |-> NoChan, sub |-> NoTask, point |-> 0,
     items |-> << [id |-> 1, name |-> "EURUSD"], [id |-> 2, name |-> "USDJPY"] >>]

\* the step appends one assets reply to the connection and leaves the
\* session's task, its subscription and the registry as they were
AssetsReplied(x) ==
    /\ out'[x] = Append(out[x], AssetsReply)
    /\ hpc'[x] = "recv"
    /\ UNCHANGED <<subscribe_task, hexc, hmsg, tstate, towner, treq, tcancel,
                   texc, psvars>>

\* C13 (as claimed): every assets request is answered with exactly one
\* assets message listing every asset once in store order, and the request
\* does not change the session's subscription state.
C13_EveryAssetsRequestAnswered ==
    [][\A x \in Sessions :
          (nrecv'[x] = nrecv[x] + 1 /\ lastAssets'[x] # "no") => AssetsReplied(x)]_vars

\* C13 (amended): every assets request whose store query returns is
\* answered with exactly one assets message listing every asset once in
\* store order, whether or not a forwarding subscription is active, and
\* does not change the session's subscription state.
C13_AssetsRequestAnswered ==
    [][\A x \in Sessions :
          (nrecv'[x] = nrecv[x] + 1 /\ lastAssets'[x] = "ok") => AssetsReplied(x)]_vars

\* an assets reply was written while the session's task was forwarding,
\* after a point frame of the subscription
C13_Witness ==
    \E x \in Sessions :
        /\ lastAssets[x] = "ok" /\ hpc[x] = "recv"
        /\ subscribe_task[x] # NoTask
        /\ tstate[subscribe_task[x]] = "forwarding"
        /\ received[subscribe_task[x]] # <<>>
        /\ Len(out[x]) >= 3
        /\ Last(out[x]) = AssetsReply
        /\ out[x][Len(out[x]) - 1].action = "point"

\* C19 (as claimed): a session subscribing to a known asset misses no point:
\* every point stored for the asset is in its asset_history reply or, once
\* the subscription's queue is drained (and was never full), has been sent
\* as a point frame - also a point published between the history query and
\* the registration of the subscription.
C19_NoGapAfterHistory ==
    \A t \in SubIds :
        (tstate[t] = "forwarding" /\ ~wasFull[t] /\ queue[t] = <<>>) =>
            LET snapshot == TaskMsgs(t)[1].items
                history == get_asset_history(get_asset_by_id(treq[t].v))
            IN \A i \in DOMAIN history :
                  \/ i <= Len(snapshot)
                  \/ history[i] \in Range(received[t])

\* the writers of connection x that are inside a send: 0 for ws_handler
\* itself, t for the task t
Senders(x) ==
    {t \in TasksOf(x) : tstate[t] \in {"sent", "sending"}}
        \cup (IF hpc[x] = "assets_send" THEN {NoTask} ELSE {})

\* C20 (as claimed): on one connection at most one task is inside a send at
\* any time: the send of an assets reply by ws_handler never overlaps a send
\* of the forwarding task, and the sends of two forwarding tasks never
\* overlap.
C20_OneSenderAtATime ==
    \A x \in Sessions : Cardinality(Senders(x)) <= 1

\* C18: publish has no suspension point, so a subscribe or unsubscribe
\* never falls inside it: a publish can be called in every state of the
\* registry, the subscriber set is the same before and after it, and every
\* subscriber of the channel holds the point in its queue afterwards unless
\* its queue was full.
C18_PublishStep ==
    \A c \in Names :
        Len(published'[c]) > Len(published[c]) =>
            /\ Subscribers(CHANNELS', c) = Subscribers(CHANNELS, c)
            /\ \A n \in Names \ {c} :
                  Subscribers(CHANNELS', n) = Subscribers(CHANNELS, n)
            /\ \A s \in SubIds :
                  (subChan[s] = c /\ subState[s] = "entered") =>
                      \/ Len(queue[s]) = QueueMaxSize
                      \/ /\ queue'[s] # <<>>
                         /\ Last(queue'[s]) = Last(published'[c])

C18_PublishAmongSubscribes ==
    /\ [](\A c \in Names : npub < MaxPublish => ENABLED Publish(c))
    /\ [][C18_PublishStep]_vars

\* two subscribers of one channel, one of which entered between two
\* publishes and the other left after them: both received the later point
C18_Witness ==
    \E s, r \in SubIds :
        /\ s # r /\ subChan[s] = subChan[r]
        /\ subState[s] = "exited" /\ subState[r] = "entered"
        /\ Len(offered[s]) = 2 /\ Len(offered[r]) = 1
        /\ Last(offered[s]) = Last(offered[r])
        /\ Last(offered[r]) \in Range(queue[r]) \cup Range(received[r])
        /\ Last(offered[s]) \in Range(queue[s]) \cup Range(received[s])

\* -------------------------------------------------------- crawler claims

\* C17: for a payload that decodes, parse_raw returns exactly one point per
\* record of "Rates" whose symbol is a known asset, in record order, with
\* that asset, the timestamp int(ts) and the value (bid + ask) / 2 where a
\* missing bid or ask counts as 0; a record with an unknown (or no) symbol
\* yields no point and leaves the points of the other records as they are.
C17_OnePointPerKnownRecord ==
    /\ cpc = "parse_error" => ~craw.decodes
    /\ cpc = "parsed" =>
          LET rates == craw.rates
              known == {i \in DOMAIN rates :
                           \E j \in DOMAIN cassets : cassets[j].symbol = rates[i].symbol}
              rank(i) == Cardinality({j \in known : j <= i})
              number(x) == IF x = Missing THEN 0 ELSE x
          IN /\ Len(cpoints) = Cardinality(known)
             /\ \A i \in known :
                   LET point == cpoints[rank(i)]
                   IN /\ point.asset \in Range(cassets)
                      /\ point.asset.symbol = rates[i].symbol
                      /\ point.timestamp = IntTs(cts)
                      /\ 2 * point.value = number(rates[i].bid) + number(rates[i].ask)

\* two known records around an unknown one, one of them without a bid
C17_Witness ==
    /\ cpc = "parsed"
    /\ cassets = Assets
    /\ cts = 3
    /\ craw.rates = <<Rate("USDJPY", Missing, 40), Rate("XAUUSD", 20, 40)>>
    /\ cpoints = <<[asset |-> [id |-> 2, symbol |-> "USDJPY"],
                    timestamp |-> 1, value |-> 20]>>

\* C14: the crawler terminates only when it is cancelled: a step in which
\* the fetch, the parse or a store call raises is logged and ends in the
\* sleep, from which the next tick starts once the sleep is over; a tick
\* whose fetch or parse failed has appended no point and published nothing.
C14_Survives ==
    /\ cpc = "finished" => ccancel
    /\ cresult # "raised"
    /\ tickErr \in {"fetch", "parse"} =>
          Len(stored) = tickBase[1] /\ npub = tickBase[2]
    /\ (cpc = "sleep" /\ ~ccancel /\ now >= cwake /\ nticks < MaxTicks) =>
          ENABLED CrawlWake

C14_ErrorStep ==
    /\ clogged' = clogged + 1 => cpc' = "sleep" /\ tickErr' # "none"
    /\ (cpc # "sleep" /\ cpc' = "sleep") =>
          (cwake' <= cts + REQUEST_PERIOD * ClockRes \/ cwake' = now)

C14_CrawlerSurvivesErrors == []C14_Survives /\ [][C14_ErrorStep]_vars

\* a first tick that failed without storing anything, and a second tick
\* that stored and published a point
C14_Witness ==
    /\ nticks = 2 /\ clogged = 1 /\ tickErr = "none"
    /\ tickBase = <<0, 0, 0>>
    /\ stored # <<>> /\ npub = Len(stored)
    /\ cpc = "sleep"

\* C15: once the crawler task is cancelled, whatever await of the tick it
\* is suspended at (fetch, assets, insert, notify or sleep), it starts no
\* other fetch and its only step is to finish; that step logs no error and
\* is not counted as a failure of the tick, and the `await` of the task at
\* application cleanup returns normally.
C15_CancelStep ==
    /\ ccancel => nticks' = nticks
    /\ (ccancel /\ cpc' # cpc) => cpc' = "finished"
    /\ (cpc # "finished" /\ cpc' = "finished") =>
          /\ ccancel
          /\ clogged' = clogged /\ tickErr' = tickErr
          /\ cresult' = "returned"
          /\ cancelledAt' = cpc

C15_CancelledCrawlerReturns ==
    /\ [](/\ cresult \in {"pending", "returned"}
          /\ cresult = "returned" <=> cpc = "finished")
    /\ [][C15_CancelStep]_vars

\* the crawler was cancelled while it was persisting the points of its
\* first tick
C15_Witness ==
    /\ cpc = "finished" /\ cresult = "returned"
    /\ cancelledAt = "insert"
    /\ nticks = 1 /\ clogged = 0 /\ tickErr = "none"
    /\ Len(cpoints) = 2 /\ ck = 2

\* C16 (as claimed): every point the crawler has appended to the store is
\* published on the channel named by its asset's symbol (at the latest when
\* the crawler has left the save of that point) and has reached every
\* subscriber that was live on the channel and had room; the points of one
\* asset carry non-decreasing timestamps, each the integer truncation of
\* the start time of a tick.
C16_AppendedIsPublished ==
    /\ cpc # "notify" =>
          \A i \in DOMAIN stored :
              stored[i] \in Range(published[stored[i].asset.symbol])
    /\ \A s \in SubIds :
          (subState[s] = "entered" /\ ~wasFull[s]) =>
              Range(offered[s]) \subseteq Range(received[s]) \cup Range(queue[s])
    /\ \A i, j \in DOMAIN stored :
          (i < j /\ stored[i].asset = stored[j].asset) =>
              stored[i].timestamp <= stored[j].timestamp
    /\ \A i \in DOMAIN stored : stored[i].timestamp <= IntTs(cts)

\* C21 (as claimed): the append of a point and its publish are atomic: once
\* the crawler is outside the save of a point (asleep, fetching, or finished,
\* also after a cancellation or a failed store call) every appended point has
\* been published on the channel of its symbol and every published point is
\* in the store.
C21_AppendAndPublishAtomic ==
    cpc \notin {"insert", "notify"} =>
        /\ \A i \in DOMAIN stored :
              \E k \in DOMAIN published[stored[i].asset.symbol] :
                  published[stored[i].asset.symbol][k] = stored[i]
        /\ \A c \in Names : \A k \in DOMAIN published[c] :
              \E i \in DOMAIN stored : stored[i] = published[c][k]
        /\ Len(stored) = npub

\* C22: after each tick the crawler sleeps for max(0, ts + period - now),
\* ts being the start time of the tick: the sleep is never longer than that,
\* the next tick starts when it is over, which is at ts + period when the
\* tick took less than the period and at once when it overran the period;
\* every wake-up starts exactly one tick, and two ticks in a row never start
\* less than a period apart.
C22_Period == REQUEST_PERIOD * ClockRes

C22_SleepTime == IF cts + C22_Period - now > 0 THEN cts + C22_Period - now ELSE 0

C22_NoOversleep == (cpc = "sleep" /\ ~ccancel) => now <= cwake

C22_TickStep ==
    /\ (cpc # "sleep" /\ cpc' = "sleep") =>
          /\ cwake' = now + C22_SleepTime
          /\ now < cts + C22_Period => cwake' = cts + C22_Period
          /\ now >= cts + C22_Period => cwake' = now
    /\ (cpc = "sleep" /\ cpc' = "fetch") =>
          /\ now = cwake
          /\ cts' = cwake
          /\ nticks' = nticks + 1
          /\ cts' >= cts + C22_Period
    /\ nticks' \in {nticks, nticks + 1}
    /\ nticks' = nticks + 1 => cpc \in {"start", "sleep"} /\ cpc' = "fetch"

C22_SleepKeepsCadence == []C22_NoOversleep /\ [][C22_TickStep]_vars

\* a third tick that starts right after the second tick overran its period,
\* the second tick having started one period after the first
C22_Witness ==
    /\ nticks = 3 /\ cpc = "fetch"
    /\ tickBase[3] = C22_Period
    /\ cts > tickBase[3] + C22_Period

\* ------------------------------------------- subscription manager claims

\* the contexts of channel c that are inside their `async with` body
ActiveOn(c) == { x \in Ctxs : mchan[x] = c /\ mpc[x] = "active" }

\* C23 (as claimed): while at least one subscribe(C) context is active, C is
\* in _channels and a listener for C is registered upstream, so that a
\* notification on C reaches the publish callback; a context that exits
\* while another context of C stays active removes no listener of C.
C23_Listening ==
    \A c \in Names :
        ActiveOn(c) # {} => c \in _channels /\ ChannelListeners(c) # {}

C23_ExitStep ==
    \A c \in Names : \A x \in ActiveOn(c) :
        (mpc'[x] # "active" /\ ActiveOn(c) # {x}) =>
            /\ c \in _channels'
            /\ { l \in listeners' : l[2] = c } = ChannelListeners(c)

C23_ListenerWhileSubscribed == []C23_Listening /\ [][C23_ExitStep]_vars

\* C24 (as claimed): when a subscribe of a not-yet-listened channel starts
\* while another subscribe of that channel is suspended acquiring the
\* connection or adding the listener, then once both contexts are active
\* exactly one listener is registered for the channel and a notification on
\* the channel is passed to the publish callback exactly once, and neither
\* context raises.
C24_OneListener ==
    \A x \in Ctxs : movl[x] # 0 =>
        /\ mexc[x] = "none" /\ mexc[movl[x]] = "none"
        /\ (mpc[x] = "active" /\ mpc[movl[x]] = "active") =>
              Cardinality(ChannelListeners(mchan[x])) = 1

C24_NotifyStep ==
    \A x \in Ctxs :
        (/\ movl[x] # 0
         /\ mpc[x] = "active" /\ mpc[movl[x]] = "active"
         /\ mnotes' = mnotes + 1 /\ mlast' = mchan[x]) => mcalls' = 1

C24_OverlappingFirstSubscribes == []C24_OneListener /\ [][C24_NotifyStep]_vars

\* C25 (as claimed): the manager never holds more than one connection of the
\* pool, and while any subscribe context is active _connection is that
\* connection: it is set and has not been released.
C25_OneSharedConnection ==
    /\ Cardinality(held) <= 1
    /\ (\E x \in Ctxs : mpc[x] = "active") =>
          _connection # NoConn /\ held = {_connection}

====
